---- MODULE Spec2Model ----
(***************************************************************************)
(* A model of the Jamo front-end library: the slice-based Store            *)
(* (src/src/Store.js), the Component composition engine and the App        *)
(* router (src/src/Component.js).                                          *)
(*                                                                         *)
(* Store.dispatch is synchronous; its notification loop calls user         *)
(* callbacks, which may call the store again.  The loop is therefore       *)
(* modelled as a stack of activations (one frame per dispatch whose        *)
(* forEach is running) and one step per callback invocation.  Top-level    *)
(* calls are only possible when that stack is empty.                       *)
(*                                                                         *)
(* Component.render is asynchronous: a render call is a stack of           *)
(* activations that runs from one await to the next, interleaved with the  *)
(* other render calls in flight.  App.loadPage awaits a render call and    *)
(* appends what it returns to the root element.                            *)
(***************************************************************************)
EXTENDS Integers, Sequences, FiniteSets, TLC

(***************************************************************************)
(* Bounds of the model                                                     *)
(***************************************************************************)
\* dispatch calls accepted between two configure calls
MaxDispatch == 2
\* successful subscribe calls
MaxSubs == 2

(***************************************************************************)
(* Inputs of the store                                                     *)
(***************************************************************************)
Null == "null"
NoSlice == ""
NoReducer == "none"

\* property names used as slice names by the callers
SliceNames == {"count", "cart"}
\* action.type values
ActionTypes == {"INC", "DBL"}
\* the actions the callers dispatch: both types to "count", one to "cart"
Actions ==
    {a \in [slice : SliceNames, type : ActionTypes] :
        a.slice = "count" \/ a.type = "INC"}
\* slice values (the example reducers compute modulo the number of values)
Values == 0 .. 1
\* the objects the caller passes as initialState
ObjIds == {"o1", "o2"}
\* the objects the caller passes as reducers
TableIds == {"r1", "r2"}
\* the arguments the caller passes to configure: two complete
\* configurations, and two with a member missing
Configs == {[initialState |-> "o1", reducers |-> "r1"],
            [initialState |-> "o2", reducers |-> "r2"],
            [initialState |-> Null, reducers |-> "r1"],
            [initialState |-> "o1", reducers |-> Null]}
\* the functions the caller passes to subscribe
Callbacks == {"f", "g"}
\* the subscribe calls of the callers: both functions to "count", one to
\* "cart"
Subscriptions ==
    {s \in [slice : SliceNames, fn : Callbacks] :
        s.slice = "count" \/ s.fn = "f"}

\* the initialState object literals of the caller; every configure call is
\* given the object a literal has just made, as in the README (heap holds the
\* object the store refers to, next to literals not evaluated yet: the store
\* cannot reach the objects of earlier configure calls)
InitialHeap ==
    [o \in ObjIds |->
        IF o = "o1" THEN [count |-> 0, cart |-> 1] ELSE [count |-> 1, cart |-> 1]]

\* r1 has a reducer for both slices, r2 only for "count"
ReducerOf(tbl, slice) ==
    IF tbl = "r1" THEN (IF slice = "count" THEN "counter" ELSE "scaler")
    ELSE IF tbl = "r2" /\ slice = "count" THEN "scaler"
    ELSE NoReducer

\* two pure reducers that do not commute; both are the identity on the
\* action types they do not know
Reduce(r, v, a) ==
    IF r = "counter"
    THEN (IF a.type = "INC" THEN (v + 1) % Cardinality(Values)
          ELSE IF a.type = "DBL" THEN (2 * v) % Cardinality(Values)
          ELSE v)
    ELSE (IF a.type = "INC" THEN (v + 1) % Cardinality(Values)
          ELSE IF a.type = "DBL" THEN (2 * v + 1) % Cardinality(Values)
          ELSE v)

RECURSIVE Fold(_, _, _)
Fold(r, v, as) ==
    IF as = <<>> THEN v ELSE Fold(r, Reduce(r, v, Head(as)), Tail(as))

(***************************************************************************)
(* State                                                                   *)
(***************************************************************************)
VARIABLES
    \* Store fields
    state,          \* this.state: Null or a reference to an object of heap
    reducers,       \* this.reducers: Null or a reducer table
    listeners,      \* this.listeners: slice name -> array of callbacks
    isConfigured,   \* this.isConfigured
    \* the objects the caller created; this.state aliases one of them
    heap,
    \* dispatch activations whose forEach is running, innermost last
    stack,
    \* history (not program state)
    subs,           \* the successful subscribe calls, in call order
    unsubbed,       \* registrations whose unsubscribe handle was invoked
    hist,           \* per slice, the actions dispatched since configure
    init0,          \* the initialState values when configure was called
    raised          \* what the last call of a store method raised, or "ok"

storeVars == <<state, reducers, listeners, isConfigured, heap, stack,
               subs, unsubbed, hist, init0, raised>>

\* history kept by SpecReconf only: the first registration was made before
\* the latest successful configure call
VARIABLE kept

\* the composition engine's state is declared with the engine, below


StoreInit ==
    /\ state = Null
    /\ reducers = Null
    /\ listeners = <<>>
    /\ isConfigured = FALSE
    /\ heap = InitialHeap
    /\ stack = <<>>
    /\ subs = <<>>
    /\ unsubbed = {}
    /\ hist = [k \in SliceNames |-> <<>>]
    /\ init0 = [k \in SliceNames |-> 0]
    /\ raised = "ok"
    /\ kept = FALSE

(***************************************************************************)
(* Store helpers                                                           *)
(***************************************************************************)
\* this.listeners[slice], an absent array read as an empty one
ListenersOf(k) == IF k \in DOMAIN listeners THEN listeners[k] ELSE <<>>

\* this.state[slice]
SliceVal(k) == heap[state][k]

\* what getState(k) returns (line 29): the object this.state refers to when
\* no slice is named, else the value of the slice
GetStateResult(k) == IF k = NoSlice THEN state ELSE SliceVal(k)

\* checkConfigured
checkConfigured == IF isConfigured THEN "ok" ELSE "NotConfigured"

Dispatched == Len(hist["count"]) + Len(hist["cart"])

RegsOf(arr) == [j \in 1 .. Len(arr) |-> arr[j].reg]

RECURSIVE SelectRegs(_, _)
SelectRegs(j, k) ==
    IF j > Len(subs) THEN <<>>
    ELSE IF subs[j].slice = k /\ j \notin unsubbed
         THEN <<j>> \o SelectRegs(j + 1, k)
         ELSE SelectRegs(j + 1, k)

\* the registrations of slice k whose own handle was never invoked, in
\* subscription order
Expected(k) == SelectRegs(1, k)

ConfigureError_StateOnly(o, r) == IF o = Null THEN "ConfigError" ELSE "ok"

\* configure's guard (Store.js line 14): a falsy argument is refused
ConfigureError(o, r) == IF o = Null \/ r = Null THEN "ConfigError" ELSE "ok"

DispatchError_NoLookup(a) == checkConfigured

\* dispatch's guards (lines 37-42)
DispatchError(a) ==
    IF checkConfigured # "ok" THEN checkConfigured
    ELSE IF ReducerOf(reducers, a.slice) = NoReducer THEN "UnknownSlice"
    ELSE "ok"

\* getState's guard (line 28): the slice name is not looked up in reducers
GetStateError(k) == checkConfigured

\* subscribe's guard (line 59): the slice name is not looked up in reducers
SubscribeError(k) == checkConfigured

NewSliceValue_FromInitial(a) ==
    Reduce(ReducerOf(reducers, a.slice), init0[a.slice], a)

\* the reducer call of line 44
NewSliceValue(a) == Reduce(ReducerOf(reducers, a.slice), SliceVal(a.slice), a)

NotifyList_AllSlices(k) == ListenersOf("count") \o ListenersOf("cart")

\* the array dispatch iterates (lines 47-48): the one this.listeners[slice]
\* refers to when forEach is called.  forEach reads its length once, before
\* the first callback, and each element when its turn comes.
NotifyList(k) == ListenersOf(k)

\* line 63: listeners[slice].push(listener); reg is the number of the call
Pushed(arr, fn, reg) == Append(arr, [fn |-> fn, reg |-> reg])

\* line 65: listeners[slice].filter((l) => l !== listener)
Filtered(arr, fn) == SelectSeq(arr, LAMBDA l : l.fn # fn)

\* the value a callback reads with getState(slice) while it runs
SeenBy(k) == SliceVal(k)

Top == stack[Len(stack)]

\* no callback of the forEach has read the state yet
NotRead == Cardinality(Values)

\* the activation of the forEach of line 48 for action a: arr is the array
\* it iterates, as it is now; live tells whether this.listeners[slice] still
\* refers to that array; len is the length forEach read and i the index of
\* the next callback.  The rest is history: arr0 the elements at the start,
\* k the position of the action among those dispatched to the slice, exp the
\* registrations then subscribed and not unsubscribed by their own handle,
\* seen and n what the last callback entered has read.
NewFrame(a) ==
    [slice |-> a.slice, arr |-> NotifyList(a.slice),
     live |-> a.slice \in DOMAIN listeners,
     len |-> Len(NotifyList(a.slice)), i |-> 1,
     arr0 |-> NotifyList(a.slice), k |-> Len(hist[a.slice]) + 1,
     exp |-> Expected(a.slice), seen |-> NotRead, n |-> 0]

StartRound_Unstored(a, stk) ==
    /\ heap' = heap
    /\ hist' = [hist EXCEPT ![a.slice] = Append(@, a)]
    /\ stack' = Append(stk, NewFrame(a))

StartRound_Twice(a, stk) ==
    /\ heap' = [heap EXCEPT ![state][a.slice] =
                   Reduce(ReducerOf(reducers, a.slice), NewSliceValue(a), a)]
    /\ hist' = [hist EXCEPT ![a.slice] = Append(@, a)]
    /\ stack' = Append(stk, NewFrame(a))

\* lines 44-48 of dispatch, called with the activations stk of the caller
StartRound(a, stk) ==
    /\ heap' = [heap EXCEPT ![state][a.slice] = NewSliceValue(a)]
    /\ hist' = [hist EXCEPT ![a.slice] = Append(@, a)]
    /\ stack' = Append(stk, NewFrame(a))

\* the frame of the running forEach once the callback at its index has been
\* entered: seen is what getState(slice) gave that callback, n the number of
\* actions dispatched to the slice until then
Entered ==
    [stack EXCEPT ![Len(stack)] =
        [@ EXCEPT !.i = @ + 1,
                  !.seen = SeenBy(Top.slice),
                  !.n = Len(hist[Top.slice])]]

\* the registrations whose callback the forEach of frame f has invoked
Invoked(f) == RegsOf(SubSeq(f.arr, 1, f.i - 1))

\* lines 60-63
SubscribeEffect(k, fn) ==
    /\ listeners' = (k :> Pushed(ListenersOf(k), fn, Len(subs) + 1)) @@ listeners
    /\ subs' = Append(subs, [slice |-> k, fn |-> fn])

\* the activations stk after line 63 pushed fn on this.listeners[k]: a
\* forEach that iterates that very array sees it grow
PushedInLoops(stk, k, fn) ==
    [j \in 1 .. Len(stk) |->
        IF stk[j].slice = k /\ stk[j].live
        THEN [stk[j] EXCEPT !.arr = Pushed(@, fn, Len(subs) + 1)]
        ELSE stk[j]]

\* the activations stk after line 65 gave this.listeners[k] a new array: a
\* forEach that iterates the former one goes on with it
DetachedLoops(stk, k) ==
    [j \in 1 .. Len(stk) |->
        IF stk[j].slice = k THEN [stk[j] EXCEPT !.live = FALSE] ELSE stk[j]]

\* the closure of lines 64-66, for the handle that registration r returned
UnsubscribeEffect(r) ==
    /\ listeners' = [listeners EXCEPT ![subs[r].slice] = Filtered(@, subs[r].fn)]
    /\ unsubbed' = unsubbed \cup {r}

(***************************************************************************)
(* Store operations called by application code                             *)
(***************************************************************************)
Configure_DropsListeners(o, r) ==
    /\ stack = <<>>
    /\ IF ConfigureError(o, r) # "ok"
       THEN UNCHANGED <<state, reducers, isConfigured, heap, hist, init0,
                        listeners>>
       ELSE /\ state' = o
            /\ reducers' = r
            /\ isConfigured' = TRUE
            /\ hist' = [k \in SliceNames |-> <<>>]
            /\ init0' = InitialHeap[o]
            /\ heap' = InitialHeap
            /\ listeners' = <<>>
    /\ raised' = ConfigureError(o, r)
    /\ UNCHANGED <<stack, subs, unsubbed>>

Configure(o, r) ==
    /\ stack = <<>>
    /\ IF ConfigureError(o, r) # "ok"
       THEN UNCHANGED <<state, reducers, isConfigured, heap, hist, init0>>
       ELSE /\ state' = o
            /\ reducers' = r
            /\ isConfigured' = TRUE
            /\ hist' = [k \in SliceNames |-> <<>>]
            /\ init0' = InitialHeap[o]
            /\ heap' = InitialHeap
    /\ raised' = ConfigureError(o, r)
    /\ UNCHANGED <<listeners, stack, subs, unsubbed>>

GetState(k) ==
    /\ stack = <<>>
    /\ raised' = GetStateError(k)
    /\ UNCHANGED <<state, reducers, listeners, isConfigured, heap, stack,
                   subs, unsubbed, hist, init0>>

Dispatch(a) ==
    /\ stack = <<>>
    /\ raised' = DispatchError(a)
    /\ IF DispatchError(a) # "ok"
       THEN UNCHANGED <<heap, hist, stack>>
       ELSE /\ Dispatched < MaxDispatch
            /\ StartRound(a, <<>>)
    /\ UNCHANGED <<state, reducers, listeners, isConfigured, subs, unsubbed,
                   init0>>

Subscribe(k, fn) ==
    /\ stack = <<>>
    /\ IF SubscribeError(k) # "ok"
       THEN UNCHANGED <<listeners, subs>>
       ELSE /\ Len(subs) < MaxSubs
            /\ SubscribeEffect(k, fn)
    /\ raised' = SubscribeError(k)
    /\ UNCHANGED <<state, reducers, isConfigured, heap, stack, unsubbed,
                   hist, init0>>

Unsubscribe(r) ==
    /\ stack = <<>>
    /\ UnsubscribeEffect(r)
    /\ raised' = "ok"
    /\ UNCHANGED <<state, reducers, isConfigured, heap, stack, subs,
                   hist, init0>>

(***************************************************************************)
(* The notification loop of dispatch (lines 47-49), one callback at a time *)
(***************************************************************************)
InLoop_Rereads == stack # <<>> /\ Top.i <= Len(Top.arr)

\* forEach has a callback left to call
InLoop == stack # <<>> /\ Top.i <= Top.len

\* a callback that only reads the state
ListenerReturns ==
    /\ InLoop
    /\ stack' = Entered
    /\ UNCHANGED <<state, reducers, listeners, isConfigured, heap, subs,
                   unsubbed, hist, init0, raised>>

\* a callback that dispatches: the nested dispatch runs before the loop of
\* the caller goes on; its error is not caught by anyone
ListenerDispatches(a) ==
    /\ InLoop
    /\ raised' = DispatchError(a)
    /\ IF DispatchError(a) # "ok"
       THEN /\ stack' = <<>>
            /\ UNCHANGED <<heap, hist>>
       ELSE /\ Dispatched < MaxDispatch
            /\ StartRound(a, Entered)
    /\ UNCHANGED <<state, reducers, listeners, isConfigured, subs, unsubbed,
                   init0>>

\* a callback that subscribes
ListenerSubscribes(k, fn) ==
    /\ InLoop
    /\ Len(subs) < MaxSubs
    /\ SubscribeEffect(k, fn)
    /\ stack' = PushedInLoops(Entered, k, fn)
    /\ raised' = "ok"
    /\ UNCHANGED <<state, reducers, isConfigured, heap, unsubbed, hist,
                   init0>>

\* a callback that invokes an unsubscribe handle
ListenerUnsubscribes(r) ==
    /\ InLoop
    /\ UnsubscribeEffect(r)
    /\ stack' = DetachedLoops(Entered, subs[r].slice)
    /\ raised' = "ok"
    /\ UNCHANGED <<state, reducers, isConfigured, heap, subs, hist, init0>>

\* a callback that throws: forEach and every enclosing dispatch are left
ListenerThrows ==
    /\ InLoop
    /\ stack' = <<>>
    /\ raised' = "ListenerError"
    /\ UNCHANGED <<state, reducers, listeners, isConfigured, heap, subs,
                   unsubbed, hist, init0>>

\* forEach is over: dispatch returns to its caller
DispatchReturns ==
    /\ stack # <<>>
    /\ ~InLoop
    /\ stack' = SubSeq(stack, 1, Len(stack) - 1)
    /\ UNCHANGED <<state, reducers, listeners, isConfigured, heap, subs,
                   unsubbed, hist, init0, raised>>

(***************************************************************************)
(* Application code that keeps the object it passed to configure, or the   *)
(* object getState() returned (the same object: lines 17 and 29 copy the   *)
(* reference), and writes a property of it                                 *)
(***************************************************************************)
CallerWrites(o, k, v) ==
    /\ stack = <<>>
    /\ o = state
    /\ heap[o][k] # v
    /\ heap' = [heap EXCEPT ![o][k] = v]
    /\ UNCHANGED <<state, reducers, listeners, isConfigured, stack, subs,
                   unsubbed, hist, init0, raised>>

(***************************************************************************)
(* The composition engine (Component.js)                                   *)
(*                                                                         *)
(* A render call is an asynchronous activation.  It runs until its next    *)
(* await, where activations of other render calls may run.  Nested render  *)
(* calls are awaited one at a time, so a top-level render call is a stack  *)
(* of frames, innermost last.  One action is the code between two awaits;  *)
(* an await whose continuation reads or writes nothing another activation  *)
(* can change is merged with that continuation.                            *)
(***************************************************************************)
\* top-level render calls
MaxRenders == 2

\* component classes (constructor.name)
Types == {"Page", "Card", "Leaf", "Broken", "Ghost"}

\* JamoComponentsConfig.json: componentDirectory has no entry for "Ghost"
HasDirectory(t) == t \in {"Page", "Card", "Leaf", "Broken"}

\* the data-component attributes of the placeholders of each template, in
\* document order
Template(t) ==
    IF t = "Page" THEN <<"Card", "Card">>
    ELSE IF t = "Card" THEN <<"Leaf">>
    ELSE IF t = "Broken" THEN <<"Leaf", "Ghost", "Leaf">>
    ELSE <<>>

\* the component instances application code creates and renders
Roots == {"page", "card", "broken", "ghost"}
RootType(n) ==
    IF n = "page" THEN "Page"
    ELSE IF n = "card" THEN "Card"
    ELSE IF n = "broken" THEN "Broken"
    ELSE "Ghost"

VARIABLES
    config,     \* Component.config: Null until JamoComponentsConfig.json is loaded
    styles,     \* per type, the number of its style elements in document.head
    io,         \* the fetches and module loads requested so far
    elems,      \* the elements created by #parseHTML
    element,    \* this.element of each root instance (NoElement: null)
    renders     \* the top-level render calls, in call order

renderVars == <<config, styles, io, elems, element, renders>>

\* the router (class App)
VARIABLES
    location,     \* window.location.hash
    routes,       \* this.routes: path -> component instance
    rootElement,  \* the children of this.rootElement, in document order
    loads,        \* the render calls a loadPage activation awaits (line 199)
    reported      \* what the last handleRouting call wrote to console.error

appVars == <<location, routes, rootElement, loads, reported>>
vars == <<storeVars, kept, renderVars, appVars>>

\* what the steps of the store, of a render call and of the router leave
\* alone
nonStore == <<renderVars, appVars, kept>>
nonRender == <<storeVars, kept, appVars>>
nonApp == <<storeVars, kept>>

\* An element is named by the render call that parsed it and the positions
\* of the placeholders that lead to it from the root of that call.
NoElement == <<>>

RenderInit ==
    /\ config = Null
    /\ styles = [t \in Types |-> 0]
    /\ io = {}
    /\ elems = <<>>
    /\ element = [n \in Roots |-> NoElement]
    /\ renders = <<>>

Request(kind, t) == [kind |-> kind, type |-> t]

\* one activation of render(); inst names the root instance, or is "" for an
\* instance made by #renderNestedComponents; id names the element line 72
\* makes for it; list is the NodeList of line 129 and i the position of the
\* loop of line 131 in it
Frame(t, inst, pc, id) ==
    [type |-> t, inst |-> inst, pc |-> pc, id |-> id, list |-> <<>>, i |-> 0]

\* a top-level render call: frames are its activations, inits the elements
\* of the instances whose initialize() it has run, result what it returned
RenderCall(n, status, frames) ==
    [root |-> n, status |-> status, result |-> NoElement, inits |-> <<>>,
     stack |-> frames]

Running(rid) == rid \in 1 .. Len(renders) /\ renders[rid].status = "running"
TopOf(rid) == renders[rid].stack[Len(renders[rid].stack)]
Depth(rid) == Len(renders[rid].stack)

SetTop(rid, f) == [renders EXCEPT ![rid].stack[Len(renders[rid].stack)] = f]

\* #parseHTML (lines 105-109) of the template of type t: one element whose
\* placeholders are those of the template
Parsed(t) ==
    [type |-> t,
     slots |-> [j \in 1 .. Len(Template(t)) |->
                   [k |-> "ph", t |-> Template(t)[j], e |-> NoElement]]]

\* #applyStyles (lines 115-123): a style element per type, added unless one
\* with the id of the type is in the document
ApplyStyles_Unchecked(t) == [styles EXCEPT ![t] = @ + 1]

ApplyStyles(t) == IF styles[t] > 0 THEN styles ELSE [styles EXCEPT ![t] = @ + 1]

NextPlaceholder_LastFirst(list, j) == IF j > Len(list) THEN 0 ELSE Len(list)

\* the next placeholder the loop of lines 131-133 stops at, from position j:
\* those with an empty name are skipped; 0 when the loop is over
RECURSIVE NextPlaceholder(_, _)
NextPlaceholder(list, j) ==
    IF j > Len(list) THEN 0
    ELSE IF list[j] = "" THEN NextPlaceholder(list, j + 1)
    ELSE j

\* lines 131-139 from position j of the loop of frame f: either the loop is
\* over and #setup returns, or the module of the next placeholder is
\* requested, whatever componentDirectory holds for its name
LoopFrom(f, j) ==
    IF NextPlaceholder(f.list, j) = 0
    THEN [f EXCEPT !.pc = "init", !.i = 0]
    ELSE [f EXCEPT !.pc = "import", !.i = NextPlaceholder(f.list, j)]

LoopRequests(f, j) ==
    IF NextPlaceholder(f.list, j) = 0 THEN {}
    ELSE {Request("import", f.list[NextPlaceholder(f.list, j)])}

Failed_Swallowed(rid) ==
    IF TopOf(rid).pc = "import"
    THEN SetTop(rid, LoopFrom(TopOf(rid), TopOf(rid).i + 1))
    ELSE [renders EXCEPT ![rid].status = "failed", ![rid].stack = <<>>]

\* the render call rejects: the error passes every enclosing #setup (line 78)
Failed(rid) == [renders EXCEPT ![rid].status = "failed", ![rid].stack = <<>>]

\* #setPaths once the configuration is there (lines 55-60)
PathsFound(t) == HasDirectory(t)

\* what an activation on type t requests when #setPaths has returned (lines
\* 87-90); nothing when #setPaths has thrown
PathRequests(t) == IF PathsFound(t) THEN {Request("fetch", t)} ELSE {}

ThisElement(f) == IF f.inst = "" THEN f.id ELSE element[f.inst]

(***************************************************************************)
(* Steps of a render call                                                  *)
(***************************************************************************)
\* application code calls render() on a root instance: lines 18-19, 67-69
\* and 51-53 run before the first await; with the configuration there,
\* lines 55-60 and the requests of lines 87-90 follow
StartRender(n) ==
    /\ Len(renders) < MaxRenders
    /\ IF config = Null
       THEN /\ io' = io \cup {Request("config", "")}
            /\ renders' = Append(renders,
                  RenderCall(n, "running",
                       <<Frame(RootType(n), n, "cfg", <<Len(renders) + 1>>)>>))
       ELSE /\ io' = io \cup PathRequests(RootType(n))
            /\ renders' = Append(renders,
                  IF PathsFound(RootType(n))
                  THEN RenderCall(n, "running",
                            <<Frame(RootType(n), n, "fetch", <<Len(renders) + 1>>)>>)
                  ELSE RenderCall(n, "failed", <<>>))
    /\ UNCHANGED <<config, styles, elems, element>>

\* the configuration arrives (lines 38-40), then lines 55-60 and 87-90
ConfigLoaded(rid) ==
    /\ Running(rid)
    /\ TopOf(rid).pc = "cfg"
    /\ config' = "loaded"
    /\ io' = io \cup PathRequests(TopOf(rid).type)
    /\ renders' = IF PathsFound(TopOf(rid).type)
                  THEN SetTop(rid, [TopOf(rid) EXCEPT !.pc = "fetch"])
                  ELSE Failed(rid)
    /\ UNCHANGED <<styles, elems, element>>

\* the configuration cannot be loaded (lines 41-44)
ConfigFails(rid) ==
    /\ Running(rid)
    /\ TopOf(rid).pc = "cfg"
    /\ renders' = Failed(rid)
    /\ UNCHANGED <<config, styles, io, elems, element>>

\* both files arrive (lines 92-93); lines 72-73 parse and apply the styles,
\* line 129 collects the placeholders of this.element and the loop runs to
\* its first import
FetchDone(rid) ==
    /\ Running(rid)
    /\ TopOf(rid).pc = "fetch"
    /\ LET f == TopOf(rid)
           g == [f EXCEPT !.list = Template(f.type)]
       IN /\ elems' = (f.id :> Parsed(f.type)) @@ elems
          /\ element' = IF f.inst = "" THEN element ELSE [element EXCEPT ![f.inst] = f.id]
          /\ styles' = ApplyStyles(f.type)
          /\ io' = io \cup LoopRequests(g, 1)
          /\ renders' = SetTop(rid, LoopFrom(g, 1))
    /\ UNCHANGED config

\* a file cannot be fetched (lines 94-97)
FetchFails(rid) ==
    /\ Running(rid)
    /\ TopOf(rid).pc = "fetch"
    /\ renders' = Failed(rid)
    /\ UNCHANGED <<config, styles, io, elems, element>>

\* the module of the placeholder arrives: lines 140-142 make an instance and
\* call its render(), which runs lines 55-60 and requests its files
ImportDone(rid) ==
    /\ Running(rid)
    /\ TopOf(rid).pc = "import"
    /\ HasDirectory(TopOf(rid).list[TopOf(rid).i])
    /\ io' = io \cup PathRequests(TopOf(rid).list[TopOf(rid).i])
    /\ renders' =
          IF PathsFound(TopOf(rid).list[TopOf(rid).i])
          THEN [renders EXCEPT ![rid].stack =
                  Append(SubSeq(@, 1, Len(@) - 1), [TopOf(rid) EXCEPT !.pc = "child"])
                  \o <<Frame(TopOf(rid).list[TopOf(rid).i], "", "fetch",
                             Append(TopOf(rid).id, TopOf(rid).i))>>]
          ELSE Failed(rid)
    /\ UNCHANGED <<config, styles, elems, element>>

\* the module cannot be loaded: there is none at the path line 138 builds
\* from a missing directory entry, and any load can fail
ImportFails(rid) ==
    /\ Running(rid)
    /\ TopOf(rid).pc = "import"
    /\ renders' = Failed(rid)
    /\ UNCHANGED <<config, styles, io, elems, element>>

\* the render() of a nested instance ends (lines 20-21): its hook runs and
\* its element replaces the placeholder (line 143); the loop of the caller
\* goes on to its next import
ChildReturns(rid) ==
    /\ Running(rid)
    /\ Depth(rid) > 1
    /\ TopOf(rid).pc = "init"
    /\ LET c == TopOf(rid)
           p == renders[rid].stack[Depth(rid) - 1]
       IN /\ elems' = [elems EXCEPT ![p.id].slots[p.i] =
                          [k |-> "el", t |-> @.t, e |-> ThisElement(c)]]
          /\ io' = io \cup LoopRequests(p, p.i + 1)
          /\ renders' = [renders EXCEPT
                ![rid].inits = Append(@, ThisElement(c)),
                ![rid].stack = Append(SubSeq(@, 1, Len(@) - 2), LoopFrom(p, p.i + 1))]
    /\ UNCHANGED <<config, styles, element>>

\* the render() of the root instance ends (lines 20-21): its hook runs and
\* the caller gets this.element
RootReturns(rid) ==
    /\ Running(rid)
    /\ Depth(rid) = 1
    /\ TopOf(rid).pc = "init"
    /\ renders' = [renders EXCEPT
          ![rid].inits = Append(@, ThisElement(TopOf(rid))),
          ![rid].result = ThisElement(TopOf(rid)),
          ![rid].status = "done",
          ![rid].stack = <<>>]
    /\ UNCHANGED <<config, styles, io, elems, element>>

(***************************************************************************)
(* The router (class App, Component.js lines 150-201)                      *)
(***************************************************************************)
\* the addRoute calls of the application: a path and the instance it shows
Routes == {[path |-> "#/a", component |-> "page"],
           [path |-> "#/b", component |-> "card"]}

\* the arguments of the goToPage calls of the application
PageHashes == {"/a", "/b", "#/a"}

\* the fragments the browser can move the location to (back, forward, a
\* fragment typed or clicked), each followed by a popstate event
Fragments == {"", "#/a", "#/b"}

\* the constructor (lines 151-157): the root element is empty, there is no
\* route, and the handleRouting call of line 156 finds none for the location
AppInit ==
    /\ location = ""
    /\ routes = <<>>
    /\ rootElement = <<>>
    /\ loads = {}
    /\ reported = "Invalid Path"

\* the location after history.pushState(null, null, `#${pageHash}`), line 174
Hash(pageHash) == "#" \o pageHash

\* this.routes[hash], line 183
Registered(hash) == hash \in DOMAIN routes

\* rootElement.appendChild(e), line 200: a child of the root is moved to
\* its end
Appended(children, e) == Append(SelectSeq(children, LAMBDA c : c # e), e)

\* loadPage up to its await (lines 198-199): the root is emptied and the
\* render call of the component starts
LoadPage(n) ==
    /\ rootElement' = <<>>
    /\ StartRender(n)
    /\ loads' = loads \cup {Len(renders) + 1}

HandleRouting_Clears(hash) ==
    IF ~Registered(hash)
    THEN /\ reported' = "Invalid Path"
         /\ rootElement' = <<>>
         /\ UNCHANGED <<loads, renderVars>>
    ELSE /\ reported' = ""
         /\ LoadPage(routes[hash])

\* handleRouting (lines 181-191) with the location at hash
HandleRouting(hash) ==
    IF ~Registered(hash)
    THEN /\ reported' = "Invalid Path"
         /\ UNCHANGED <<rootElement, loads, renderVars>>
    ELSE /\ reported' = ""
         /\ LoadPage(routes[hash])

\* addRoute (lines 165-167)
AddRoute(r) ==
    /\ routes' = (r.path :> r.component) @@ routes
    /\ UNCHANGED <<location, rootElement, loads, reported, renderVars>>

\* goToPage (lines 173-176)
GoToPage(pageHash) ==
    /\ location' = Hash(pageHash)
    /\ HandleRouting(Hash(pageHash))
    /\ UNCHANGED routes

\* a popstate event (line 157) after the browser moved the location to hash
PopState(hash) ==
    /\ location' = hash
    /\ HandleRouting(hash)
    /\ UNCHANGED routes

\* loadPage after its await (line 200): the element render() returned is
\* appended to the root
PageMounted(rid) ==
    /\ rid \in loads
    /\ renders[rid].status = "done"
    /\ rootElement' = Appended(rootElement, renders[rid].result)
    /\ loads' = loads \ {rid}
    /\ UNCHANGED <<location, routes, reported, renderVars>>

Init == StoreInit /\ RenderInit /\ AppInit

Next ==
    \/ \E c \in Configs :
          Configure(c.initialState, c.reducers) /\ UNCHANGED nonStore
    \/ \E k \in SliceNames \cup {NoSlice} :
          GetState(k) /\ UNCHANGED nonStore
    \/ \E a \in Actions : Dispatch(a) /\ UNCHANGED nonStore
    \/ \E s \in Subscriptions :
          Subscribe(s.slice, s.fn) /\ UNCHANGED nonStore
    \/ \E r \in 1 .. Len(subs) : Unsubscribe(r) /\ UNCHANGED nonStore
    \/ ListenerReturns /\ UNCHANGED nonStore
    \/ \E a \in Actions : ListenerDispatches(a) /\ UNCHANGED nonStore
    \/ \E s \in Subscriptions :
          ListenerSubscribes(s.slice, s.fn) /\ UNCHANGED nonStore
    \/ \E r \in 1 .. Len(subs) : ListenerUnsubscribes(r)
             /\ UNCHANGED nonStore
    \/ ListenerThrows /\ UNCHANGED nonStore
    \/ DispatchReturns /\ UNCHANGED nonStore

Spec == Init /\ [][Next]_vars

\* the steps of a dispatch that is notifying: the callback whose turn it is
\* runs and ends, and forEach and dispatch return after the last one
Notifying ==
    \/ ListenerReturns
    \/ \E a \in Actions : ListenerDispatches(a)
    \/ \E s \in Subscriptions : ListenerSubscribes(s.slice, s.fn)
    \/ \E r \in 1 .. Len(subs) : ListenerUnsubscribes(r)
    \/ ListenerThrows
    \/ DispatchReturns

\* the store with callbacks that end: dispatch is synchronous, so a dispatch
\* that is notifying goes on until it returns or throws
SpecLive == Spec /\ WF_vars(Notifying /\ UNCHANGED nonStore)

\* the store, with the history of its configure calls
NextReconf ==
    \/ \E c \in Configs :
          /\ Configure(c.initialState, c.reducers)
          /\ kept' = IF ConfigureError(c.initialState, c.reducers) = "ok"
                      THEN subs # <<>> ELSE kept
          /\ UNCHANGED <<renderVars, appVars>>
    \/ \E k \in SliceNames \cup {NoSlice} : GetState(k) /\ UNCHANGED nonStore
    \/ \E a \in Actions : Dispatch(a) /\ UNCHANGED nonStore
    \/ \E s \in Subscriptions : Subscribe(s.slice, s.fn) /\ UNCHANGED nonStore
    \/ \E r \in 1 .. Len(subs) : Unsubscribe(r) /\ UNCHANGED nonStore
    \/ ListenerReturns /\ UNCHANGED nonStore
    \/ \E a \in Actions : ListenerDispatches(a) /\ UNCHANGED nonStore
    \/ \E s \in Subscriptions :
          ListenerSubscribes(s.slice, s.fn) /\ UNCHANGED nonStore
    \/ \E r \in 1 .. Len(subs) : ListenerUnsubscribes(r) /\ UNCHANGED nonStore
    \/ ListenerThrows /\ UNCHANGED nonStore
    \/ DispatchReturns /\ UNCHANGED nonStore

SpecReconf == Init /\ [][NextReconf]_vars

NextAlias ==
    \/ Next
    \/ \E o \in ObjIds, k \in SliceNames, v \in Values :
          CallerWrites(o, k, v) /\ UNCHANGED nonStore

\* the store together with application code that writes to the objects it
\* shares with the store
SpecAlias == Init /\ [][NextAlias]_vars

NextRender ==
    \/ \E n \in Roots : StartRender(n) /\ UNCHANGED nonRender
    \/ \E rid \in 1 .. Len(renders) : ConfigLoaded(rid) /\ UNCHANGED nonRender
    \/ \E rid \in 1 .. Len(renders) : ConfigFails(rid) /\ UNCHANGED nonRender
    \/ \E rid \in 1 .. Len(renders) : FetchDone(rid) /\ UNCHANGED nonRender
    \/ \E rid \in 1 .. Len(renders) : FetchFails(rid) /\ UNCHANGED nonRender
    \/ \E rid \in 1 .. Len(renders) : ImportDone(rid) /\ UNCHANGED nonRender
    \/ \E rid \in 1 .. Len(renders) : ImportFails(rid) /\ UNCHANGED nonRender
    \/ \E rid \in 1 .. Len(renders) : ChildReturns(rid) /\ UNCHANGED nonRender
    \/ \E rid \in 1 .. Len(renders) : RootReturns(rid) /\ UNCHANGED nonRender

\* render calls of application code; the store is not used
SpecRender == Init /\ [][NextRender]_vars

NextApp ==
    \/ \E r \in Routes : AddRoute(r) /\ UNCHANGED nonApp
    \/ \E h \in PageHashes : GoToPage(h) /\ UNCHANGED nonApp
    \/ \E h \in Fragments : PopState(h) /\ UNCHANGED nonApp
    \/ \E rid \in 1 .. Len(renders) : PageMounted(rid) /\ UNCHANGED nonApp
    \/ \E rid \in 1 .. Len(renders) :
          ConfigLoaded(rid) /\ UNCHANGED nonRender
    \/ \E rid \in 1 .. Len(renders) :
          ConfigFails(rid) /\ UNCHANGED nonRender
    \/ \E rid \in 1 .. Len(renders) :
          FetchDone(rid) /\ UNCHANGED nonRender
    \/ \E rid \in 1 .. Len(renders) :
          FetchFails(rid) /\ UNCHANGED nonRender
    \/ \E rid \in 1 .. Len(renders) :
          ImportDone(rid) /\ UNCHANGED nonRender
    \/ \E rid \in 1 .. Len(renders) :
          ImportFails(rid) /\ UNCHANGED nonRender
    \/ \E rid \in 1 .. Len(renders) :
          ChildReturns(rid) /\ UNCHANGED nonRender
    \/ \E rid \in 1 .. Len(renders) :
          RootReturns(rid) /\ UNCHANGED nonRender

\* an application that renders its pages through the router
SpecApp == Init /\ [][NextApp]_vars

(***************************************************************************)
(* Properties of the store                                                 *)
(***************************************************************************)
HasReducer(k) == isConfigured /\ ReducerOf(reducers, k) # NoReducer

\* C1: for every configured slice S, getState(S) is the left fold of S's
\* reducer over the actions dispatched to S since configure, in dispatch
\* order, starting from S's value in the initialState given to configure,
\* whatever was dispatched to other slices in between.
C1_FoldOfDispatched ==
    \A k \in SliceNames :
        HasReducer(k) =>
            GetStateResult(k) = Fold(ReducerOf(reducers, k), init0[k], hist[k])

\* two different actions were dispatched to "count", in an order that matters
C1_Witness ==
    /\ HasReducer("count")
    /\ stack = <<>>
    /\ Len(hist["count"]) = 2
    /\ hist["count"][1] # hist["count"][2]
    /\ GetStateResult("count") #
          Fold(ReducerOf(reducers, "count"), init0["count"],
               <<hist["count"][2], hist["count"][1]>>)

\* C2: a dispatch to S invokes, once each and in subscription order, exactly
\* the registrations of S that were subscribed and whose own unsubscribe
\* handle had not been invoked when it was called (N of them, or the N-1
\* others after the handle of the k-th was invoked), whatever the callbacks
\* are: when its forEach is over, these are the registrations invoked.
C2_NotifiesEachRegistrationOnce ==
    \A j \in 1 .. Len(stack) :
        stack[j].i > stack[j].len => Invoked(stack[j]) = stack[j].exp

C4_HandleRemovesOwnRegistration ==
    \A k \in SliceNames : RegsOf(ListenersOf(k)) = Expected(k)

\* C5: getState and subscribe called with a slice name that has no reducer
\* raise the unknown-slice error, and subscribe registers nothing.
C5_UnknownSliceRefused ==
    [][\A k \in SliceNames :
          (isConfigured /\ ~HasReducer(k)) =>
             /\ GetState(k) => raised' = "UnknownSlice"
             /\ \A fn \in Callbacks :
                   Subscribe(k, fn) =>
                      raised' = "UnknownSlice" /\ listeners' = listeners]_vars

\* C6: configure raises an error when initialState or reducers is absent and
\* then leaves the store as it was; while the store is not configured,
\* getState, dispatch and subscribe raise the not-configured error.
C6_ConfigureContract ==
    [][/\ \A c \in Configs :
             (/\ Configure(c.initialState, c.reducers)
              /\ (c.initialState = Null \/ c.reducers = Null)) =>
                /\ raised' = "ConfigError"
                /\ UNCHANGED <<state, reducers, listeners, isConfigured, heap>>
       /\ ~isConfigured =>
             /\ \A k \in SliceNames \cup {NoSlice} :
                   GetState(k) => raised' = "NotConfigured"
             /\ \A a \in Actions : Dispatch(a) => raised' = "NotConfigured"
             /\ \A k \in SliceNames, fn \in Callbacks :
                   Subscribe(k, fn) =>
                      raised' = "NotConfigured" /\ listeners' = listeners]_vars

\* a configure call failed on a store that was configured and used, and the
\* store is still configured
C6_Witness ==
    /\ raised = "ConfigError"
    /\ isConfigured
    /\ state # Null
    /\ Dispatched > 0

\* C7: the value getState(S) gives a listener of S while it runs is the fold
\* of S's reducer over the actions dispatched so far, the action of the
\* dispatch that invoked it included; this also holds when listeners
\* dispatch.
C7_ListenerSeesNewState ==
    \A j \in 1 .. Len(stack) :
        stack[j].seen # NotRead =>
            /\ stack[j].n >= stack[j].k
            /\ stack[j].seen =
                  Fold(ReducerOf(reducers, stack[j].slice), init0[stack[j].slice],
                       SubSeq(hist[stack[j].slice], 1, stack[j].n))

\* a listener invoked by a nested dispatch read a value that is neither the
\* one the slice had before the two dispatches nor the one after the first
C7_Witness ==
    /\ Len(stack) = 2
    /\ stack[2].seen # NotRead
    /\ stack[2].slice = stack[1].slice
    /\ stack[2].seen # init0[stack[2].slice]
    /\ stack[2].seen #
          Fold(ReducerOf(reducers, stack[2].slice), init0[stack[2].slice],
               SubSeq(hist[stack[2].slice], 1, 1))

\* C8: the value getState gives for a slice changes only by a dispatch to
\* that slice or by configure, never by a write to the object getState()
\* returned or to the initialState object; and dispatch leaves the caller's
\* initialState object as it was.
C8_StateOnlyChangedByDispatch ==
    [][/\ \A k \in SliceNames :
             (isConfigured /\ isConfigured' /\ GetStateResult(k)' # GetStateResult(k))
                => \/ \E a \in Actions :
                         a.slice = k /\ (Dispatch(a) \/ ListenerDispatches(a))
                   \/ \E c \in Configs : Configure(c.initialState, c.reducers)
       /\ \A a \in Actions :
             (Dispatch(a) \/ ListenerDispatches(a)) => heap' = heap]_vars

\* a dispatch call that passes the guards of dispatch
Dispatches(a) ==
    (Dispatch(a) \/ ListenerDispatches(a)) /\ DispatchError(a) = "ok"

\* C17: a dispatch whose listeners dispatch (a bounded number of times)
\* ends.  A nested dispatch applies its reducer and notifies all the
\* listeners of its slice before the loop of the dispatch that invoked it
\* calls its next listener; each dispatch call applies the reducer of its
\* slice once to the value then current, nothing else changes a value, and
\* when no dispatch is running the value of each slice is the fold of its
\* reducer over the actions in the order the dispatch calls began.
C17_NestedDispatchTerminates ==
    /\ []<>(stack = <<>>)
    /\ [](stack = <<>> =>
             \A k \in SliceNames :
                HasReducer(k) =>
                   SliceVal(k) = Fold(ReducerOf(reducers, k), init0[k], hist[k]))
    /\ [][/\ \A a \in Actions :
                Dispatches(a) =>
                   /\ hist' = [hist EXCEPT ![a.slice] = Append(@, a)]
                   /\ heap' = [heap EXCEPT ![state][a.slice] =
                                  Reduce(ReducerOf(reducers, a.slice),
                                         SliceVal(a.slice), a)]
                   /\ Len(stack') = Len(stack) + 1
                   /\ Top'.i = 1
          /\ (\A a \in Actions : ~Dispatches(a)) =>
                \/ hist' = hist /\ heap' = heap
                \/ \E c \in Configs : Configure(c.initialState, c.reducers)
          /\ \A j \in 1 .. Len(stack) - 1 :
                j <= Len(stack') => stack'[j].i = stack[j].i
          /\ DispatchReturns => Top.i = Top.len + 1]_vars

\* a listener of a dispatch has dispatched to the same slice; the nested
\* dispatch has notified its listeners and the outer one has listeners left
C17_Witness ==
    /\ Len(stack) = 2
    /\ stack[1].slice = stack[2].slice
    /\ stack[2].len >= 2
    /\ stack[2].i > stack[2].len
    /\ stack[1].i <= stack[1].len

\* C18: a dispatch to S that passes its guards changes the value of S only:
\* the value of every other slice, the state object, the reducer table and
\* the listener lists are as before; and the callbacks its forEach invokes
\* were all registered by a subscribe call for S.
C18_DispatchTouchesOnlyItsSlice ==
    /\ [][\A a \in Actions :
             Dispatches(a) =>
                /\ \A k \in SliceNames \ {a.slice} : SliceVal(k)' = SliceVal(k)
                /\ state' = state
                /\ reducers' = reducers
                /\ listeners' = listeners
                /\ Top'.slice = a.slice]_vars
    /\ [](\A j \in 1 .. Len(stack) :
             \A q \in 1 .. stack[j].i - 1 :
                subs[stack[j].arr[q].reg].slice = stack[j].slice)

\* a dispatch to "count" has invoked the listeners of "count" while "cart"
\* has a listener of its own
C18_Witness ==
    /\ Len(stack) = 1
    /\ Top.slice = "count"
    /\ Top.len >= 1
    /\ Top.i > Top.len
    /\ ListenersOf("cart") # <<>>

\* a configure call that passes the guard of configure
Configures(c) ==
    /\ Configure(c.initialState, c.reducers)
    /\ ConfigureError(c.initialState, c.reducers) = "ok"

\* a handle of the registrations of slice k and function fn was invoked
HandleInvoked(k, fn) ==
    \E r \in unsubbed : subs[r].slice = k /\ subs[r].fn = fn

\* C19: a successful configure call on a configured store makes the state
\* and the reducers those of its arguments (getState gives the new initial
\* values, dispatch applies the new reducers) and leaves the listener lists
\* alone: a registration stays in the list of its slice, whatever configure
\* calls follow, until a handle for its function and slice is invoked; a
\* dispatch notifies the list as it is, and a handle empties the list of
\* its registration.
C19_ReconfigureKeepsListeners ==
    /\ [][/\ \A c \in Configs :
                Configures(c) =>
                   /\ state' = c.initialState
                   /\ reducers' = c.reducers
                   /\ \A k \in SliceNames :
                         GetStateResult(k)' = InitialHeap[c.initialState][k]
                   /\ UNCHANGED <<listeners, subs, unsubbed>>
          /\ \A a \in Actions :
                Dispatches(a) =>
                   /\ SliceVal(a.slice)' =
                         Reduce(ReducerOf(reducers, a.slice), SliceVal(a.slice), a)
                   /\ Top'.arr = ListenersOf(a.slice)
                   /\ Top'.len = Len(ListenersOf(a.slice))
          /\ \A r \in 1 .. Len(subs) :
                (Unsubscribe(r) \/ ListenerUnsubscribes(r)) =>
                   \A q \in 1 .. Len(listeners'[subs[r].slice]) :
                      listeners'[subs[r].slice][q].reg # r]_vars
    /\ [](\A r \in 1 .. Len(subs) :
             \/ \E q \in 1 .. Len(ListenersOf(subs[r].slice)) :
                   ListenersOf(subs[r].slice)[q].reg = r
             \/ HandleInvoked(subs[r].slice, subs[r].fn))

\* after a second configure call, with other arguments, a dispatch has
\* invoked the listener registered first, before that call, and a handle
\* has been invoked
C19_Witness ==
    /\ kept
    /\ state = "o2"
    /\ Len(stack) = 1
    /\ Top.i > 1
    /\ Top.arr0[1].reg = 1
    /\ unsubbed # {}

\* C20: the callbacks one dispatch to S invokes are the elements the list
\* of S had when its forEach started, in that order and no others: one that
\* a callback unsubscribes during the round is still invoked in it, one
\* that a callback subscribes during the round is not, and a round invokes
\* no registration whose own handle was invoked before the round started.
C20_NotifiedSetFixedAtStart ==
    \A j \in 1 .. Len(stack) :
        /\ stack[j].i <= Len(stack[j].arr0) + 1
        /\ Invoked(stack[j]) = RegsOf(SubSeq(stack[j].arr0, 1, stack[j].i - 1))
        /\ \A q \in 1 .. Len(stack[j].arr0) :
              \E e \in 1 .. Len(stack[j].exp) :
                 stack[j].exp[e] = stack[j].arr0[q].reg

\* the callback forEach calls next was unsubscribed by its handle after the
\* round had started and is no longer in the list of the slice
C20_Witness ==
    /\ InLoop
    /\ Top.i > 1
    /\ Top.arr0[Top.i].reg \in unsubbed
    /\ \A q \in 1 .. Len(ListenersOf(Top.slice)) :
          ListenersOf(Top.slice)[q].reg # Top.arr0[Top.i].reg

(***************************************************************************)
(* Properties of the composition engine                                    *)
(***************************************************************************)
FrameAt(rid, d) == renders[rid].stack[d]

\* C9: whatever was rendered, document.head holds at most one style element
\* per component type, and when the placeholders of an element have all
\* been handled each of them, also each of several of one type, has been
\* replaced by an element of the type it names.
C9_StylesOncePerType ==
    /\ \A t \in Types : styles[t] <= 1
    /\ \A rid \in 1 .. Len(renders) :
          \A d \in 1 .. Len(renders[rid].stack) :
             FrameAt(rid, d).pc = "init" =>
                \A j \in 1 .. Len(FrameAt(rid, d).list) :
                   /\ elems[FrameAt(rid, d).id].slots[j].k = "el"
                   /\ elems[elems[FrameAt(rid, d).id].slots[j].e].type
                         = FrameAt(rid, d).list[j]

\* two render calls of the page overlapped; one is over, the other has just
\* had its two placeholders of one type replaced
C9_Witness ==
    /\ Len(renders) = 2
    /\ renders[1].root = "page" /\ renders[2].root = "page"
    /\ renders[1].status = "done"
    /\ Running(2) /\ Depth(2) = 1 /\ TopOf(2).pc = "init"
    /\ TopOf(2).id # renders[1].result
    /\ Cardinality(DOMAIN elems) = 10
    /\ styles["Card"] = 1

\* C10: no fetch and no module load is ever requested for a component type
\* that has no entry in componentDirectory, and a render call on a node of
\* such a type does not succeed, be the node the root of the render or the
\* child named by a placeholder.
C10_UnconfiguredFailsBeforeIo ==
    /\ \A q \in io : q.kind \in {"fetch", "import"} => HasDirectory(q.type)
    /\ \A rid \in 1 .. Len(renders) :
          /\ renders[rid].status = "done" => HasDirectory(RootType(renders[rid].root))
          /\ \A d \in 1 .. Len(renders[rid].stack) :
                HasDirectory(FrameAt(rid, d).type) \/ FrameAt(rid, d).pc = "cfg"

\* the placeholders of element e have all been replaced, each by an element
\* of the type it names whose own placeholders have all been replaced
RECURSIVE Realized(_)
Realized(e) ==
    /\ e \in DOMAIN elems
    /\ \A j \in 1 .. Len(elems[e].slots) :
          /\ elems[e].slots[j].k = "el"
          /\ elems[e].slots[j].e \in DOMAIN elems
          /\ elems[elems[e].slots[j].e].type = elems[e].slots[j].t
          /\ Realized(elems[e].slots[j].e)

\* C11: within one render call the placeholders of a node are resolved one
\* at a time in document order: while the loop of a node is at placeholder
\* i, every placeholder before i has been replaced by a fully realized
\* child, placeholder i itself is still in the tree, and for no placeholder
\* after i has an instance been made, a template parsed or a hook run.
C11_SiblingsInDocumentOrder ==
    \A rid \in 1 .. Len(renders) :
       \A d \in 1 .. Len(renders[rid].stack) :
          FrameAt(rid, d).pc \in {"import", "child"} =>
             /\ \A j \in 1 .. FrameAt(rid, d).i - 1 :
                   /\ elems[FrameAt(rid, d).id].slots[j].k = "el"
                   /\ Realized(elems[FrameAt(rid, d).id].slots[j].e)
             /\ \A j \in FrameAt(rid, d).i .. Len(FrameAt(rid, d).list) :
                   /\ elems[FrameAt(rid, d).id].slots[j].k = "ph"
                   /\ \A q \in 1 .. Len(renders[rid].inits) :
                         renders[rid].inits[q] # Append(FrameAt(rid, d).id, j)
                   /\ j > FrameAt(rid, d).i =>
                         Append(FrameAt(rid, d).id, j) \notin DOMAIN elems

\* the second card of the page is being rendered, its own placeholder not
\* yet replaced, after the first card was realized with its leaf
C11_Witness ==
    /\ Len(renders) >= 1
    /\ Running(1) /\ Depth(1) = 3
    /\ FrameAt(1, 1).type = "Page" /\ FrameAt(1, 1).i = 2
    /\ FrameAt(1, 2).pc = "child"
    /\ Realized(<<1, 1>>)
    /\ <<1, 2, 1>> \notin DOMAIN elems

\* the initialize() call of line 20 is made by this step of render call rid
HookRuns(rid) == RootReturns(rid) \/ ChildReturns(rid)

\* C12: a render call runs the initialize hook of a node once, when the
\* render of that node succeeds and not before: at that moment every
\* placeholder in the subtree of the node's element has been replaced by the
\* realized output of its child (so the hooks of the descendants ran first),
\* and a call that fails runs no hook for the node that failed.
C12_HookAfterDescendants ==
    [][\A rid \in 1 .. Len(renders) :
          /\ HookRuns(rid) =>
                /\ Realized(ThisElement(TopOf(rid)))
                /\ renders'[rid].inits = Append(renders[rid].inits, ThisElement(TopOf(rid)))
                /\ \A q \in 1 .. Len(renders[rid].inits) :
                      renders[rid].inits[q] # TopOf(rid).id
          /\ ~HookRuns(rid) => renders'[rid].inits = renders[rid].inits]_vars

\* a step of render call rid in which a load or a fetch fails
FailsIn(rid) == ConfigFails(rid) \/ FetchFails(rid) \/ ImportFails(rid)

\* the elements render call rid has parsed
ElementsOf(rid, es) == {e \in DOMAIN es : e[1] = rid}

C14_ReturnsRealizedTree ==
    \A rid \in 1 .. Len(renders) :
        renders[rid].status = "done" =>
            /\ renders[rid].result # NoElement
            /\ elems[renders[rid].result].type = RootType(renders[rid].root)
            /\ Realized(renders[rid].result)

(***************************************************************************)
(* Properties of the router                                                *)
(***************************************************************************)
\* C15: a handleRouting call that finds no route for the location (after a
\* popstate event, or after goToPage moved the location to a fragment that
\* is not a registered path) reports the invalid path and leaves the
\* children of the root element, the render calls and everything they have
\* built or requested as they were.
C15_InvalidRouteKeepsContent ==
    [][/\ \A h \in Fragments :
             (PopState(h) /\ ~Registered(h)) =>
                /\ reported' = "Invalid Path"
                /\ UNCHANGED <<rootElement, loads, renderVars, routes>>
       /\ \A h \in PageHashes :
             (GoToPage(h) /\ ~Registered(Hash(h))) =>
                /\ reported' = "Invalid Path"
                /\ UNCHANGED <<rootElement, loads, renderVars, routes>>]_vars

\* a page is mounted and another is being rendered when a navigation to a
\* fragment without route has just been reported
C15_Witness ==
    /\ reported = "Invalid Path"
    /\ ~Registered(location)
    /\ routes # <<>>
    /\ rootElement # <<>>
    /\ \E rid \in loads : Running(rid)

\* C16: when every render call the router started has succeeded and its
\* element has been appended, the root element has exactly one child: the
\* realized element of the page of the navigation that came last.
C16_LastNavigationWins ==
    (/\ renders # <<>>
     /\ loads = {}
     /\ \A rid \in 1 .. Len(renders) : renders[rid].status = "done")
       => /\ rootElement = <<element[renders[Len(renders)].root]>>
          /\ Realized(element[renders[Len(renders)].root])

====
